---- MODULE Spec2Model ----
(***************************************************************************)
(* A model of package gen (src/gen.go): the template renderers             *)
(* GenerateTemplate and GenerateWithCommand, the orchestrator              *)
(* GenerateApplication, the graphviz transformers graph_to_graphviz and    *)
(* application_to_graphviz, and the file staging helpers.                  *)
(*                                                                         *)
(* The module holds several specifications over one set of variables; each *)
(* specification drives one part of the package and leaves the variables   *)
(* of the other parts at their initial value:                              *)
(*   SpecGraph     the two graphviz transformers on bounded graphs         *)
(*   SpecPath      filename_from_path and filenames_from_paths             *)
(*   SpecTemplate  one call of GenerateTemplate on a small filesystem      *)
(*   SpecCopy      one call of copy_files_to on a small filesystem         *)
(*   SpecPipe      one call of GenerateWithCommand: the template writer,   *)
(*                 the goroutine running the command, the command          *)
(*   FairSpecPipe  SpecPipe with every thread and the command scheduled    *)
(*   SpecApp       one call of GenerateApplication, stage by stage, with   *)
(*                 its two renderers                                       *)
(***************************************************************************)
EXTENDS Integers, Sequences, FiniteSets, TLC

VARIABLES
    graph_data,   \* Graphdata handed to the transformers (gen.go:52-57)
    gv,           \* outcome of graph_to_graphviz(graph_data)
    ga,           \* outcome of application_to_graphviz(a, graph_data.Graph)
    path_list,    \* a list of paths (Metadata.Sources, Metadata.Libraries)
    fn,           \* outcome of filename_from_path on one path of path_list
    fns,          \* outcome of filenames_from_paths(path_list)
    files,        \* the filesystem's regular files: path -> contents
    dirs,         \* the filesystem's directories: a set of paths
    call,         \* the arguments of the one call SpecTemplate/SpecCopy make
    ret,          \* what that call returned
    gwc,          \* the calling thread's position in GenerateWithCommand
    proc,         \* per renderer: its io.Pipe, goroutine and subprocess
    app_in,       \* the arguments of GenerateApplication
    app,          \* the calling thread's position in GenerateApplication
    trace,        \* history: the stages that acted, in order, and how each ended
    made          \* history: the directories and files the stages created

graphVars == <<graph_data, gv, ga>>
pathVars == <<path_list, fn, fns>>
fsVars == <<files, dirs>>
callVars == <<call, ret>>
pipeVars == <<gwc, proc>>
appVars == <<app_in, app, trace, made>>
restVars == <<graph_data, gv, ga, path_list, fn, fns, call, ret,
              app_in, app, trace, made>>
vars == <<graph_data, gv, ga, path_list, fn, fns, files, dirs, call, ret,
          gwc, proc, app_in, app, trace, made>>

(***************************************************************************)
(* Bounds of the model.                                                    *)
(***************************************************************************)
MaxNodes == 3     \* graph.Len() ranges over 0..MaxNodes
MaxEdges == 2     \* total number of edges placed in a graph
MaxPathLen == 2   \* characters of a path handed to filename_from_path
MaxPaths == 2     \* paths in a list handed to filenames_from_paths
MaxFileLen == 2   \* bytes of a file that exists before the call
MaxCopies == 2    \* paths in the list handed to copy_files_to
MaxChunks == 2    \* Write calls one template execution makes on the pipe
PipeCap == 1      \* chunks the operating system's pipe to the command holds
MaxExecutors == 2 \* executors of the application

(***************************************************************************)
(* Go's fmt verb %d: the decimal text of an integer.                       *)
(***************************************************************************)
Digit(d) ==
    CASE d = 0 -> "0" [] d = 1 -> "1" [] d = 2 -> "2" [] d = 3 -> "3"
      [] d = 4 -> "4" [] d = 5 -> "5" [] d = 6 -> "6" [] d = 7 -> "7"
      [] d = 8 -> "8" [] d = 9 -> "9"

RECURSIVE NatText(_)
NatText(n) == IF n < 10 THEN Digit(n) ELSE NatText(n \div 10) \o Digit(n % 10)

Itoa(n) == IF n < 0 THEN "-" \o NatText(-n) ELSE NatText(n)

(***************************************************************************)
(* A Go map read: the zero value when the key is absent.                   *)
(***************************************************************************)
MapGet(m, k) == IF k \in DOMAIN m THEN m[k] ELSE 0

RECURSIVE SumSeq(_)
SumSeq(s) == IF s = <<>> THEN 0 ELSE Head(s) + SumSeq(Tail(s))

(***************************************************************************)
(* Paths.  A path is a sequence of atoms; an atom is the separator "/" or  *)
(* a non-empty text without a separator (a single character in SpecPath,   *)
(* a whole name elsewhere).  The empty path is << >>.                      *)
(***************************************************************************)
Slash == "/"

\* strings.Split(path, "/"): the runs between separators; one more element
\* than there are separators, so never an empty list.
RECURSIVE SplitFrom(_, _, _)
SplitFrom(rest, cur, acc) ==
    IF rest = <<>> THEN Append(acc, cur)
    ELSE IF Head(rest) = Slash
         THEN SplitFrom(Tail(rest), <<>>, Append(acc, cur))
         ELSE SplitFrom(Tail(rest), Append(cur, Head(rest)), acc)

Split(path) == SplitFrom(path, <<>>, <<>>)

\* filename_from_path (gen.go:484-490).
filename_from_path(path) ==
    LET path_elements == Split(path) IN
    IF Len(path_elements) = 0
    THEN [name |-> <<>>, err |-> "Both separator and path are empty!"]
    ELSE [name |-> path_elements[Len(path_elements)], err |-> "nil"]

\* filenames_from_paths (gen.go:492-502).
RECURSIVE FilenamesLoop(_, _)
FilenamesLoop(paths, filenames) ==
    IF paths = <<>> THEN [names |-> filenames, err |-> "nil"]
    ELSE LET r == filename_from_path(Head(paths)) IN
         IF r.err # "nil" THEN [names |-> <<>>, err |-> r.err]
         ELSE FilenamesLoop(Tail(paths), Append(filenames, r.name))

filenames_from_paths(paths) == FilenamesLoop(paths, <<>>)

SeqUpTo(S, k) == UNION {[1 .. m -> S] : m \in 0 .. k}

PathChars == {"a", "b", Slash}

NotCalled == [status |-> "none"]

\* The helpers have no input and have not been called.
IdlePath ==
    /\ path_list = <<>>
    /\ fn = NotCalled
    /\ fns = NotCalled

(***************************************************************************)
(* The filesystem, as the os package shows it to this program.  A path     *)
(* names a regular file (in DOMAIN files), a directory (in dirs) or        *)
(* nothing.  A path of one name is relative to the working directory,      *)
(* which exists; the empty path names nothing.                             *)
(***************************************************************************)
Last(p) == p[Len(p)]

\* The path without one trailing separator: "d/" names what "d" names.
Norm(p) == IF Len(p) > 1 /\ Last(p) = Slash THEN SubSeq(p, 1, Len(p) - 1) ELSE p

IsFile(fs, p) == Norm(p) = p /\ p \in DOMAIN fs.files

IsDir(fs, p) == Norm(p) \in fs.dirs

\* exists_file_or_directory (gen.go:479-482): os.Stat finds the path.
exists_file_or_directory(fs, p) == IsFile(fs, p) \/ IsDir(fs, p)

\* The directory a new entry p is made in exists.
ParentExists(fs, p) ==
    \/ Len(p) = 1
    \/ Len(p) >= 3 /\ p[Len(p) - 1] = Slash /\ SubSeq(p, 1, Len(p) - 2) \in fs.dirs

\* A file can be opened for writing at p, creating it when it is not there.
CanOpenForWrite(fs, p) ==
    /\ p # <<>>
    /\ Last(p) # Slash
    /\ ~IsDir(fs, p)
    /\ (p \in DOMAIN fs.files \/ ParentExists(fs, p))

\* fs with the contents of file p set.
WithFile(fs, p, contents) ==
    [fs EXCEPT !.files = (p :> contents) @@ fs.files]

\* os.Mkdir (gen.go:213): fails when the path exists or its parent does not.
CanMkdir(fs, p) ==
    /\ p # <<>>
    /\ Last(p) # Slash
    /\ ~exists_file_or_directory(fs, p)
    /\ ParentExists(fs, p)

(***************************************************************************)
(* GenerateTemplate (gen.go:157-204).  eng is what text/template does with *)
(* the template read: whether it parses, whether it executes, and what it  *)
(* has written to the buffered writer when Execute returns.  The deferred  *)
(* Flush writes that to the file on success and on failure alike.  touched *)
(* is the set of paths the call opened, created or read.                   *)
(***************************************************************************)
TemplateReturn(fs, err, touched) ==
    [files |-> fs.files, dirs |-> fs.dirs, err |-> err, touched |-> touched]

\* GenerateTemplate with the output file created before the arguments are
\* checked.
GenerateTemplateCreateFirst(data, in_path, out_path, fs, eng) ==
    IF ~CanOpenForWrite(fs, out_path)
    THEN TemplateReturn(fs, "unable to create output file", {out_path})
    ELSE LET created == WithFile(fs, out_path, <<>>) IN
    IF data = "nil" THEN TemplateReturn(created, "bad argument: null pointer", {out_path})
    ELSE IF in_path = out_path
    THEN TemplateReturn(created,
             "input file (template) cannot be same as output file", {out_path})
    ELSE TemplateReturn(WithFile(created, out_path, eng.out), "nil",
                        {out_path, in_path})

GenerateTemplate(data, in_path, out_path, fs, eng) ==
    IF data = "nil" THEN TemplateReturn(fs, "bad argument: null pointer", {})
    ELSE IF in_path = out_path
    THEN TemplateReturn(fs,
             "input file (template) cannot be same as output file", {})
    ELSE IF ~CanOpenForWrite(fs, out_path)
    THEN TemplateReturn(fs, "unable to create output file", {out_path})
    ELSE LET created == WithFile(fs, out_path, <<>>) IN
    IF ~IsFile(created, in_path)
    THEN TemplateReturn(created, "unable to read input file", {out_path, in_path})
    ELSE IF ~eng.parse
    THEN TemplateReturn(created, "unable to parse the template",
                        {out_path, in_path})
    ELSE TemplateReturn(WithFile(created, out_path, eng.out),
                        IF eng.exec THEN "nil" ELSE "error executing template",
                        {out_path, in_path})

(***************************************************************************)
(* copy_file (gen.go:428-446).  The destination is opened O_RDWR|O_CREATE, *)
(* without O_TRUNC: the bytes copied overwrite the head of what is there,  *)
(* and what lies beyond them stays.  Reading a directory fails, after the  *)
(* destination has been opened (and created).                              *)
(***************************************************************************)
Overwrite(old, new) ==
    IF Len(old) > Len(new) THEN new \o SubSeq(old, Len(new) + 1, Len(old))
    ELSE new

CopyReturn(fs, err) == [files |-> fs.files, dirs |-> fs.dirs, err |-> err]

copy_file(from, to, fs) ==
    IF ~exists_file_or_directory(fs, from) THEN CopyReturn(fs, "open from")
    ELSE IF ~CanOpenForWrite(fs, to) THEN CopyReturn(fs, "open to")
    ELSE LET old == IF to \in DOMAIN fs.files THEN fs.files[to] ELSE <<>>
             opened == WithFile(fs, to, old)
         IN  IF IsDir(fs, from) THEN CopyReturn(opened, "read: is a directory")
             ELSE CopyReturn(WithFile(fs, to, Overwrite(old, fs.files[from])),
                             "nil")

(***************************************************************************)
(* copy_files_to (gen.go:449-477).                                         *)
(***************************************************************************)
RECURSIVE CopyLoop(_, _, _)
CopyLoop(paths, destination, fs) ==
    IF paths = <<>> THEN CopyReturn(fs, "nil")
    ELSE LET path == Head(paths) IN
         IF ~exists_file_or_directory(fs, path)
         THEN CopyReturn(fs, "Unable to locate: path")
         ELSE LET f == filename_from_path(path) IN
              IF f.err # "nil" THEN CopyReturn(fs, f.err)
              ELSE LET c == copy_file(path, destination \o <<Slash>> \o f.name, fs)
                   IN  IF c.err # "nil" THEN c
                       ELSE CopyLoop(Tail(paths), destination,
                                     [files |-> c.files, dirs |-> c.dirs])

copy_files_to(paths, destination, fs) ==
    IF ~exists_file_or_directory(fs, destination)
    THEN CopyReturn(fs, "Unable to locate: destination")
    ELSE CopyLoop(paths, destination, fs)

\* The filesystem is empty.
IdleFs ==
    /\ files = <<>>
    /\ dirs = {}

\* GenerateApplication is not called.
IdleApp ==
    /\ app_in = [a |-> "nil"]
    /\ app = [stage |-> "idle"]
    /\ trace = <<>>
    /\ made = {}

\* No call is made.
IdleCall ==
    /\ call = [op |-> "none"]
    /\ ret = NotCalled

(***************************************************************************)
(* GenerateWithCommand (gen.go:105-154).  Three activities share the       *)
(* io.Pipe (r, w): the calling thread, which executes the template into w; *)
(* the goroutine of gen.go:141-144, which runs the command and then closes *)
(* r; and, inside cmd.Run, os/exec's copier, which reads r and writes what *)
(* it read to the command's standard input, an operating system pipe.      *)
(* An io.Pipe has no buffer: a Write returns when a Read has taken its     *)
(* data, or fails when r is closed.                                        *)
(***************************************************************************)
Renderers == {1, 2}

ProcIdle ==
    [pending |-> FALSE,   \* a Write's data waits for a Read
     wclosed |-> FALSE,   \* w.Close() was called
     rclosed |-> FALSE,   \* r.Close() was called
     gor |-> "none",      \* goroutine: none, run, wait, close, done
     copier |-> "none",   \* os/exec's copier: none, read, write, done
     buf |-> 0,           \* chunks in the command's standard input pipe
     pwclosed |-> FALSE,  \* the copier closed the command's standard input
     sub |-> "none",      \* the command: none, running, exited, failed
     early |-> FALSE,     \* the command exited before end-of-input
     out |-> <<>>]        \* the file the command writes (-o)

GwcIdle == [pc |-> "idle"]

\* No renderer runs.
IdlePipe ==
    /\ gwc = GwcIdle
    /\ proc = [r \in Renderers |-> ProcIdle]

\* The state of gwc at the call of GenerateWithCommand.
GwcCall(inst, path, cmd_found, data, out) ==
    [pc |-> "checks", inst |-> inst, path |-> path, cmd_found |-> cmd_found,
     data |-> data, out |-> out, left |-> 0, fail |-> FALSE, err |-> "nil"]

GwcReturned(err) == [gwc EXCEPT !.pc = "returned", !.err = err]

\* w closed on the successful return only.
CloseOnSuccess(err) == err = "nil"

\* The deferred w.Close() of gen.go:148: it runs on every return that
\* follows t.Execute.
DeferredClose(err) == TRUE

\* gen.go:111-144: the checks, then the pipe and the goroutine.  When the
\* template parses, its execution will make n Writes and then return, with
\* an error of its own or without.
GwcChecks ==
    /\ gwc.pc = "checks"
    /\ \/ /\ ~gwc.cmd_found
          /\ gwc' = GwcReturned("Cannot find command")
          /\ proc' = proc
       \/ /\ gwc.cmd_found
          /\ gwc.data = "nil"
          /\ gwc' = GwcReturned("bad input: null pointer")
          /\ proc' = proc
       \/ /\ gwc.cmd_found
          /\ gwc.data # "nil"
          /\ ~IsFile([files |-> files, dirs |-> dirs], gwc.path)
          /\ gwc' = GwcReturned("Unable to read template")
          /\ proc' = proc
       \/ /\ gwc.cmd_found
          /\ gwc.data # "nil"
          /\ IsFile([files |-> files, dirs |-> dirs], gwc.path)
          /\ \/ /\ gwc' = GwcReturned("Template parse error")
                /\ proc' = proc
             \/ \E n \in 0 .. MaxChunks : \E fail \in BOOLEAN :
                   /\ gwc' = [gwc EXCEPT !.pc = "execute", !.left = n,
                                         !.fail = fail]
                   /\ proc' = [proc EXCEPT ![gwc.inst] =
                                  [ProcIdle EXCEPT !.gor = "run",
                                                   !.out = gwc.out]]
    /\ UNCHANGED fsVars

\* t.Execute (gen.go:147) calls w.Write.
GwcWrite ==
    /\ gwc.pc = "execute"
    /\ gwc.left > 0
    /\ ~proc[gwc.inst].rclosed
    /\ proc' = [proc EXCEPT ![gwc.inst].pending = TRUE]
    /\ gwc' = [gwc EXCEPT !.pc = "writing"]
    /\ UNCHANGED fsVars

\* The Write's data was taken: the Write returns; Execute goes on.
GwcWriteDone ==
    /\ gwc.pc = "writing"
    /\ ~proc[gwc.inst].pending
    /\ gwc' = [gwc EXCEPT !.pc = "execute", !.left = @ - 1]
    /\ UNCHANGED <<proc, fsVars>>

\* r is closed: the Write fails, Execute returns its error, and
\* GenerateWithCommand returns (gen.go:148-151).
GwcWriteFail ==
    /\ \/ gwc.pc = "execute" /\ gwc.left > 0
       \/ gwc.pc = "writing" /\ proc[gwc.inst].pending
    /\ proc[gwc.inst].rclosed
    /\ proc' = [proc EXCEPT ![gwc.inst].pending = FALSE,
                            ![gwc.inst].wclosed =
                                DeferredClose("Exception executing template")]
    /\ gwc' = GwcReturned("Exception executing template")
    /\ UNCHANGED fsVars

\* Execute made its last Write and returns; GenerateWithCommand returns
\* (gen.go:147-153).
GwcExecuteEnd ==
    /\ gwc.pc = "execute"
    /\ gwc.left = 0
    /\ LET err == IF gwc.fail THEN "Exception executing template" ELSE "nil"
       IN  /\ proc' = [proc EXCEPT ![gwc.inst].wclosed = DeferredClose(err)]
           /\ gwc' = GwcReturned(err)
    /\ UNCHANGED fsVars

\* cmd.Run (gen.go:142) starts the command, and with it the copier; or
\* fails to start it and returns.
GorRun(r) ==
    /\ proc[r].gor = "run"
    /\ \/ proc' = [proc EXCEPT ![r].gor = "wait", ![r].sub = "running",
                               ![r].copier = "read"]
       \/ proc' = [proc EXCEPT ![r].gor = "close", ![r].sub = "failed"]
    /\ UNCHANGED <<gwc, fsVars>>

\* cmd.Run returns when the command has exited and the copier is done.
GorWait(r) ==
    /\ proc[r].gor = "wait"
    /\ proc[r].sub = "exited"
    /\ proc[r].copier = "done"
    /\ proc' = [proc EXCEPT ![r].gor = "close"]
    /\ UNCHANGED <<gwc, fsVars>>

\* r.Close() (gen.go:143).
GorClose(r) ==
    /\ proc[r].gor = "close"
    /\ proc' = [proc EXCEPT ![r].gor = "done", ![r].rclosed = TRUE]
    /\ UNCHANGED <<gwc, fsVars>>

\* The copier's Read on r: it takes the data of a pending Write, or sees
\* end-of-input once w is closed and closes the command's standard input.
CopierRead(r) ==
    /\ proc[r].copier = "read"
    /\ \/ /\ proc[r].pending
          /\ proc' = [proc EXCEPT ![r].pending = FALSE, ![r].copier = "write"]
       \/ /\ ~proc[r].pending
          /\ proc[r].wclosed
          /\ proc' = [proc EXCEPT ![r].copier = "done", ![r].pwclosed = TRUE]
    /\ UNCHANGED <<gwc, fsVars>>

\* The copier's write to the command's standard input: it fails once the
\* command has exited, and waits while the pipe is full.
CopierWrite(r) ==
    /\ proc[r].copier = "write"
    /\ \/ /\ proc[r].sub = "exited"
          /\ proc' = [proc EXCEPT ![r].copier = "done", ![r].pwclosed = TRUE]
       \/ /\ proc[r].sub # "exited"
          /\ proc[r].buf < PipeCap
          /\ proc' = [proc EXCEPT ![r].buf = @ + 1, ![r].copier = "read"]
    /\ UNCHANGED <<gwc, fsVars>>

\* The command reads a chunk of its standard input.
SubRead(r) ==
    /\ proc[r].sub = "running"
    /\ proc[r].buf > 0
    /\ proc' = [proc EXCEPT ![r].buf = @ - 1]
    /\ UNCHANGED <<gwc, fsVars>>

PngBytes == <<"p", "n", "g">>

\* The command sees end-of-input, writes its output file and exits.
SubEOF(r) ==
    /\ proc[r].sub = "running"
    /\ proc[r].buf = 0
    /\ proc[r].pwclosed
    /\ proc' = [proc EXCEPT ![r].sub = "exited"]
    /\ LET fs == [files |-> files, dirs |-> dirs] IN
       files' = IF CanOpenForWrite(fs, proc[r].out)
                THEN WithFile(fs, proc[r].out, PngBytes).files
                ELSE files
    /\ UNCHANGED <<gwc, dirs>>

\* The command exits before end-of-input, without output.
SubExitEarly(r) ==
    /\ proc[r].sub = "running"
    /\ ~(proc[r].buf = 0 /\ proc[r].pwclosed)
    /\ proc' = [proc EXCEPT ![r].sub = "exited", ![r].early = TRUE,
                            ![r].buf = 0]
    /\ UNCHANGED <<gwc, fsVars>>

\* The steps of the three activities and of the command.  None of them
\* touches what is not the pipe or the filesystem.
Caller ==
    /\ GwcChecks \/ GwcWrite \/ GwcWriteDone \/ GwcWriteFail \/ GwcExecuteEnd
    /\ UNCHANGED restVars

Goroutine(r) ==
    /\ GorRun(r) \/ GorWait(r) \/ GorClose(r)
    /\ UNCHANGED restVars

Copier(r) ==
    /\ CopierRead(r) \/ CopierWrite(r)
    /\ UNCHANGED restVars

Command(r) ==
    /\ SubRead(r) \/ SubEOF(r) \/ SubExitEarly(r)
    /\ UNCHANGED restVars

(***************************************************************************)
(* The external packages graph and ops, at their interface: a graph is a   *)
(* square matrix whose cell (i, j) holds the list of edges from i to j.    *)
(***************************************************************************)
GraphLen(g) == g.n

EdgesAt(i, j, g) == g.cells[<<i, j>>]

\* ops.Disconnected: the row is connected to no other node.
Disconnected(i, g) ==
    \A j \in 0 .. (GraphLen(g) - 1) :
        j # i => (EdgesAt(i, j, g) = <<>> /\ EdgesAt(j, i, g) = <<>>)

\* ops.NodeCount: the sum of the chain lengths.
NodeCount(chains) == SumSeq(chains)

\* ops.ChainForRow: the (0-based) chain the row belongs to.  A row at or
\* beyond NodeCount(chains) belongs to no chain; what the function returns
\* for it is not known here, and is the value other[row].
RECURSIVE ChainScan(_, _, _, _)
ChainScan(row, chains, c, sum) ==
    IF c > Len(chains) THEN -1
    ELSE IF row >= sum /\ row < sum + chains[c] THEN c - 1
    ELSE ChainScan(row, chains, c + 1, sum + chains[c])

ChainForRow(row, chains, other) ==
    IF row < NodeCount(chains) THEN ChainScan(row, chains, 1, 0) ELSE other[row]

(***************************************************************************)
(* graph_to_graphviz (gen.go:374-417).                                     *)
(***************************************************************************)
ChainNode(i, gd) ==
    [Id |-> i,
     Label |-> "N" \o Itoa(i) \o "\n(wcet=" \o Itoa(MapGet(gd.Node_wcet_map, i))
                   \o " us)\nprio=" \o Itoa(MapGet(gd.Node_prio_map, i)),
     Style |-> "filled", Fill |-> "#FFFFFF", Shape |-> "circle"]

SyncNode(i) ==
    [Id |-> i, Label |-> "N" \o Itoa(i) \o "\n(SYNC)",
     Style |-> "filled", Fill |-> "#FFE74C", Shape |-> "diamond"]

\* MakeNode with the chain/synchronization boundary off by one.
MakeNodeOffByOne(i, gd) ==
    IF i <= NodeCount(gd.Chains) THEN ChainNode(i, gd) ELSE SyncNode(i)

MakeNode(i, gd) ==
    IF i < NodeCount(gd.Chains) THEN ChainNode(i, gd) ELSE SyncNode(i)

\* The node loop.  Indexing Chains with an index outside 0..len-1 panics.
RECURSIVE NodeLoop(_, _, _, _)
NodeLoop(i, nodes, gd, other) ==
    IF i >= GraphLen(gd.Graph) THEN [panic |-> FALSE, nodes |-> nodes]
    ELSE IF ~Disconnected(i, gd.Graph)
         THEN NodeLoop(i + 1, Append(nodes, MakeNode(i, gd)), gd, other)
    ELSE LET c == ChainForRow(i, gd.Chains, other) IN
         IF c < 0 \/ c >= Len(gd.Chains)
         THEN [panic |-> TRUE, nodes |-> nodes]
         ELSE IF gd.Chains[c + 1] = 1
              THEN NodeLoop(i + 1, Append(nodes, MakeNode(i, gd)), gd, other)
              ELSE NodeLoop(i + 1, nodes, gd, other)

MakeLink(i, j, e) ==
    [From |-> i, To |-> j, Color |-> e.Color,
     Label |-> Itoa(e.Tag) \o "." \o Itoa(e.Num)]

RECURSIVE EdgeLoop(_, _, _, _)
EdgeLoop(i, j, edges, links) ==
    IF edges = <<>> THEN links
    ELSE EdgeLoop(i, j, Tail(edges), Append(links, MakeLink(i, j, Head(edges))))

\* The scan keeping one edge of each ordered pair only.
RECURSIVE LinkLoopFirstEdge(_, _, _, _)
LinkLoopFirstEdge(i, j, links, g) ==
    IF i >= GraphLen(g) THEN links
    ELSE IF j >= GraphLen(g) THEN LinkLoopFirstEdge(i + 1, 0, links, g)
    ELSE LinkLoopFirstEdge(i, j + 1,
             EdgeLoop(i, j, IF EdgesAt(i, j, g) = <<>> THEN <<>>
                            ELSE <<Head(EdgesAt(i, j, g))>>, links), g)

\* The ordered-pair scan, rows outermost.
RECURSIVE LinkLoop(_, _, _, _)
LinkLoop(i, j, links, g) ==
    IF i >= GraphLen(g) THEN links
    ELSE IF j >= GraphLen(g) THEN LinkLoop(i + 1, 0, links, g)
    ELSE LinkLoop(i, j + 1, EdgeLoop(i, j, EdgesAt(i, j, g), links), g)

graph_to_graphviz(gd, other) ==
    LET r == NodeLoop(0, <<>>, gd, other) IN
    IF r.panic
    THEN [status |-> "panic", Nodes |-> <<>>, Links |-> <<>>]
    ELSE [status |-> "ok", Nodes |-> r.nodes,
          Links |-> LinkLoop(0, 0, <<>>, gd.Graph)]

(***************************************************************************)
(* application_to_graphviz (gen.go:356-371): its own copy of the scan.     *)
(***************************************************************************)
AppMakeLink(i, j, e) ==
    [From |-> i, To |-> j, Color |-> e.Color,
     Label |-> Itoa(e.Tag) \o "." \o Itoa(e.Num)]

RECURSIVE AppEdgeLoop(_, _, _, _)
AppEdgeLoop(i, j, edges, links) ==
    IF edges = <<>> THEN links
    ELSE AppEdgeLoop(i, j, Tail(edges),
                     Append(links, AppMakeLink(i, j, Head(edges))))

RECURSIVE AppLinkLoop(_, _, _, _)
AppLinkLoop(i, j, links, g) ==
    IF i >= GraphLen(g) THEN links
    ELSE IF j >= GraphLen(g) THEN AppLinkLoop(i + 1, 0, links, g)
    ELSE AppLinkLoop(i, j + 1, AppEdgeLoop(i, j, EdgesAt(i, j, g), links), g)

application_to_graphviz(g) ==
    [status |-> "ok", Links |-> AppLinkLoop(0, 0, <<>>, g)]

(***************************************************************************)
(* Inputs of the transformers: every graph of at most MaxNodes nodes and   *)
(* MaxEdges edges, every list of chain lengths that fits in it.            *)
(***************************************************************************)
EdgeRed == [Tag |-> 0, Num |-> 1, Color |-> "red"]

EdgeBlue == [Tag |-> 12, Num |-> 0, Color |-> "blue"]

\* The k-th edge added to a graph.
EdgeOf(k) == IF k % 2 = 1 THEN EdgeRed ELSE EdgeBlue

Cells(n) == (0 .. (n - 1)) \X (0 .. (n - 1))

EmptyGraph(n) == [n |-> n, cells |-> [c \in Cells(n) |-> <<>>]]

\* The graph g with one more edge in each cell of ps, in that order.
RECURSIVE PlaceAll(_, _, _)
PlaceAll(g, ps, k) ==
    IF k > Len(ps) THEN g
    ELSE PlaceAll([g EXCEPT !.cells[ps[k]] = Append(@, EdgeOf(k))], ps, k + 1)

ChainLists(n) == {s \in SeqUpTo(1 .. n, n) : SumSeq(s) <= n}

\* The wcet and priority maps: an entry for every chain node, or none.
WcetMap(D) == [i \in D |-> 1500 + 10 * i]

PrioMap(D) == [i \in D |-> i - 1]

NoResult == [status |-> "none"]

\* What ops.ChainForRow may return for the rows it is asked about that
\* belong to no chain (graph_to_graphviz asks about disconnected rows only).
OtherRows(gd) ==
    [{r \in NodeCount(gd.Chains) .. (GraphLen(gd.Graph) - 1) :
          Disconnected(r, gd.Graph)}
        -> -1 .. Len(gd.Chains)]

\* The transformers have no input and have not been called.
IdleGraph ==
    /\ graph_data = [Chains |-> <<>>, Node_wcet_map |-> <<>>,
                     Node_prio_map |-> <<>>, Graph |-> EmptyGraph(0)]
    /\ gv = NoResult
    /\ ga = NoResult

InitGraph ==
    /\ IdlePath
    /\ IdleApp
    /\ IdlePipe
    /\ IdleFs
    /\ IdleCall
    /\ \E n \in 0 .. MaxNodes :
       \E ch \in ChainLists(n) :
       \E ps \in SeqUpTo(Cells(n), MaxEdges) :
       \E D \in {0 .. (NodeCount(ch) - 1), {}} :
           graph_data = [Chains |-> ch, Node_wcet_map |-> WcetMap(D),
                         Node_prio_map |-> PrioMap(D),
                         Graph |-> PlaceAll(EmptyGraph(n), ps, 1)]
    /\ gv = NoResult
    /\ ga = NoResult

CallGraphToGraphviz ==
    /\ gv = NoResult
    /\ \E other \in OtherRows(graph_data) :
           gv' = graph_to_graphviz(graph_data, other)
    /\ UNCHANGED <<graph_data, ga, pathVars, fsVars, callVars, pipeVars, appVars>>

CallApplicationToGraphviz ==
    /\ ga = NoResult
    /\ ga' = application_to_graphviz(graph_data.Graph)
    /\ UNCHANGED <<graph_data, gv, pathVars, fsVars, callVars, pipeVars, appVars>>

NextGraph == CallGraphToGraphviz \/ CallApplicationToGraphviz

SpecGraph == InitGraph /\ [][NextGraph]_vars

(***************************************************************************)
(* Properties of the transformers.                                         *)
(***************************************************************************)
Rows == 0 .. (GraphLen(graph_data.Graph) - 1)

NodeIds(nodes) == {nodes[k].Id : k \in DOMAIN nodes}

Occurrences(nodes, i) == Cardinality({k \in DOMAIN nodes : nodes[k].Id = i})

\* Node i has an edge to or from a node other than itself.
ConnectedToOther(i) ==
    \E j \in Rows \ {i} :
        \/ EdgesAt(i, j, graph_data.Graph) # <<>>
        \/ EdgesAt(j, i, graph_data.Graph) # <<>>

\* Node i is the one node of a chain of length 1.
InSingletonChain(i) ==
    \E c \in DOMAIN graph_data.Chains :
        /\ graph_data.Chains[c] = 1
        /\ SumSeq(SubSeq(graph_data.Chains, 1, c - 1)) = i

LinksOfPair(links, i, j) == SelectSeq(links, LAMBDA l : l.From = i /\ l.To = j)

\* The text "<tag>.<num>" of the two edges of the model.
ExpectedLabel(e) == IF e = EdgeRed THEN "0.1" ELSE "12.0"

\* links holds, for every ordered pair, one link per edge, in edge order.
OneLinkPerEdge(links) ==
    /\ \A k \in DOMAIN links : links[k].From \in Rows /\ links[k].To \in Rows
    /\ \A i \in Rows : \A j \in Rows :
          LET ls == LinksOfPair(links, i, j)
              es == EdgesAt(i, j, graph_data.Graph)
          IN  /\ Len(ls) = Len(es)
              /\ \A k \in DOMAIN es :
                    /\ ls[k].Color = es[k].Color
                    /\ ls[k].Label = ExpectedLabel(es[k])

\* C4: graph_to_graphviz completes, and node i is in Nodes exactly once if
\* it is connected to another node or is a chain of length 1, and not at
\* all otherwise.
C4_InclusionRule ==
    gv # NoResult =>
        /\ gv.status = "ok"
        /\ \A i \in Rows :
              Occurrences(gv.Nodes, i) =
                  IF ConnectedToOther(i) \/ InSingletonChain(i) THEN 1 ELSE 0

\* C5: for every ordered pair (i, j) with k parallel edges, the Links of
\* graph_to_graphviz hold exactly k links from i to j, one per edge, each
\* with the edge's color and the label "<tag>.<num>"; application_to_graphviz
\* produces the same list.
C5_LinksPerEdge ==
    /\ gv.status = "ok" => OneLinkPerEdge(gv.Links)
    /\ ga.status = "ok" => OneLinkPerEdge(ga.Links)
    /\ (gv.status = "ok" /\ ga.status = "ok") => ga.Links = gv.Links

\* Both transformers returned, on a graph with two parallel edges that form
\* a self-loop.
C5_Witness ==
    /\ gv.status = "ok"
    /\ ga.status = "ok"
    /\ \E i \in Rows : Len(EdgesAt(i, i, graph_data.Graph)) >= 2

ChainNodeStyled(nd) ==
    /\ nd.Shape = "circle"
    /\ nd.Fill = "#FFFFFF"
    /\ nd.Label = "N" \o Itoa(nd.Id) \o "\n(wcet="
                      \o Itoa(MapGet(graph_data.Node_wcet_map, nd.Id))
                      \o " us)\nprio="
                      \o Itoa(MapGet(graph_data.Node_prio_map, nd.Id))

\* C6 (as amended): an included node below NodeCount(Chains) is a circle
\* filled #FFFFFF whose label is N<i>, a line break, (wcet=<w> us), a line
\* break, prio=<p>; an included node at or beyond it is a diamond filled
\* #FFE74C whose label is N<i>, a line break, (SYNC).
C6_NodeStyle ==
    gv.status = "ok" =>
        \A k \in DOMAIN gv.Nodes :
            LET nd == gv.Nodes[k] IN
            IF nd.Id < NodeCount(graph_data.Chains)
            THEN ChainNodeStyled(nd)
            ELSE /\ nd.Shape = "diamond"
                 /\ nd.Fill = "#FFE74C"
                 /\ nd.Label = "N" \o Itoa(nd.Id) \o "\n(SYNC)"

\* C6 as stated: the label of an included synchronization node is exactly
\* N<i>, a space, (SYNC).
C6_AsStated ==
    gv.status = "ok" =>
        \A k \in DOMAIN gv.Nodes :
            LET nd == gv.Nodes[k] IN
            IF nd.Id < NodeCount(graph_data.Chains)
            THEN ChainNodeStyled(nd)
            ELSE /\ nd.Shape = "diamond"
                 /\ nd.Fill = "#FFE74C"
                 /\ nd.Label = "N" \o Itoa(nd.Id) \o " (SYNC)"

\* The diagram holds a chain node with a wcet and a synchronization node.
C6_Witness ==
    /\ gv.status = "ok"
    /\ \E k \in DOMAIN gv.Nodes :
          /\ gv.Nodes[k].Id < NodeCount(graph_data.Chains)
          /\ gv.Nodes[k].Id \in DOMAIN graph_data.Node_wcet_map
    /\ \E k \in DOMAIN gv.Nodes : gv.Nodes[k].Id >= NodeCount(graph_data.Chains)

\* C9: in a returned Graphviz_graph every Link's From and To are ids of
\* nodes in Nodes.
C9_NoDanglingLink ==
    gv.status = "ok" =>
        \A k \in DOMAIN gv.Links :
            /\ gv.Links[k].From \in NodeIds(gv.Nodes)
            /\ gv.Links[k].To \in NodeIds(gv.Nodes)

(***************************************************************************)
(* SpecPath: the filename helpers applied to every list of at most         *)
(* MaxPaths paths of at most MaxPathLen characters.                        *)
(***************************************************************************)
InitPath ==
    /\ IdleGraph
    /\ IdleApp
    /\ IdlePipe
    /\ IdleFs
    /\ IdleCall
    /\ path_list \in SeqUpTo(SeqUpTo(PathChars, MaxPathLen), MaxPaths)
    /\ fn = NotCalled
    /\ fns = NotCalled

CallFilenameFromPath ==
    /\ fn = NotCalled
    /\ \E k \in DOMAIN path_list :
           fn' = [status |-> "returned", path |-> path_list[k],
                  res |-> filename_from_path(path_list[k])]
    /\ UNCHANGED <<path_list, fns, graphVars, fsVars, callVars, pipeVars, appVars>>

CallFilenamesFromPaths ==
    /\ fns = NotCalled
    /\ fns' = [status |-> "returned", res |-> filenames_from_paths(path_list)]
    /\ UNCHANGED <<path_list, fn, graphVars, fsVars, callVars, pipeVars, appVars>>

NextPath == CallFilenameFromPath \/ CallFilenamesFromPaths

SpecPath == InitPath /\ [][NextPath]_vars

\* The characters of path after its last separator.
RECURSIVE AfterLastSlash(_)
AfterLastSlash(path) ==
    IF path = <<>> \/ path[Len(path)] = Slash THEN <<>>
    ELSE Append(AfterLastSlash(SubSeq(path, 1, Len(path) - 1)), path[Len(path)])

\* C8: filename_from_path returns an error for the empty path and, for a
\* non-empty path, the text after its last separator and no error;
\* filenames_from_paths fails when its list holds an empty path.
C8_EmptyPathRejected ==
    /\ fn # NotCalled =>
          IF fn.path = <<>>
          THEN fn.res.err # "nil"
          ELSE fn.res.err = "nil" /\ fn.res.name = AfterLastSlash(fn.path)
    /\ fns # NotCalled =>
          ((\E k \in DOMAIN path_list : path_list[k] = <<>>) =>
               fns.res.err # "nil")

(***************************************************************************)
(* SpecTemplate: one call of GenerateTemplate.  The filesystem holds the   *)
(* directory d, and in it the files t and o or not.                        *)
(***************************************************************************)
Bytes == {"x", "y"}

Contents == SeqUpTo(Bytes, MaxFileLen)

FileT == <<"d", Slash, "t">>

FileO == <<"d", Slash, "o">>

\* The files of P that exist, with their contents: every choice.
FileStates(P) ==
    UNION {[Q -> Contents] : Q \in SUBSET P}

TemplatePaths == {FileT, FileO, <<"d">>, <<"m", Slash, "o">>, <<>>}

Engines == [parse : BOOLEAN, exec : BOOLEAN, out : {<<"g">>, <<"g", "g", "g">>}]

InitTemplate ==
    /\ IdleGraph
    /\ IdleApp
    /\ IdlePipe
    /\ IdlePath
    /\ files \in FileStates({FileT, FileO})
    /\ dirs = {<<"d">>}
    /\ call \in [op : {"GenerateTemplate"}, data : {"nil", "data"},
                 in_path : TemplatePaths, out_path : TemplatePaths]
    /\ ret = NotCalled

CallGenerateTemplate ==
    /\ call.op = "GenerateTemplate"
    /\ ret = NotCalled
    /\ \E eng \in Engines :
          LET r == GenerateTemplate(call.data, call.in_path, call.out_path,
                                    [files |-> files, dirs |-> dirs], eng)
          IN  /\ files' = r.files
              /\ dirs' = r.dirs
              /\ ret' = [status |-> "returned", err |-> r.err,
                         touched |-> r.touched]
    /\ UNCHANGED <<call, graphVars, pathVars, pipeVars, appVars>>

NextTemplate == CallGenerateTemplate

SpecTemplate == InitTemplate /\ [][NextTemplate]_vars

\* C7: a call of GenerateTemplate with in_path equal to out_path, or with
\* absent data, returns an error and touches no file: the filesystem after
\* the call is the filesystem before it.
C7_NoTouchOnBadArguments ==
    [][(/\ call.op = "GenerateTemplate"
        /\ ret = NotCalled
        /\ ret' # NotCalled
        /\ (call.in_path = call.out_path \/ call.data = "nil"))
         => (/\ ret'.err # "nil"
             /\ ret'.touched = {}
             /\ files' = files
             /\ dirs' = dirs)]_vars

\* GenerateTemplate returned from a call, with data, whose template and
\* output are the same existing, non-empty file.
C7_Witness ==
    /\ ret # NotCalled
    /\ call.op = "GenerateTemplate"
    /\ call.data # "nil"
    /\ call.in_path = call.out_path
    /\ call.in_path \in DOMAIN files
    /\ files[call.in_path] # <<>>

(***************************************************************************)
(* SpecCopy: one call of copy_files_to.  The sources are in the            *)
(* directories in and in2; the destination dst holds a file x or not.      *)
(***************************************************************************)
InX == <<"in", Slash, "x">>

In2X == <<"in2", Slash, "x">>

InY == <<"in", Slash, "y">>

DstX == <<"dst", Slash, "x">>

CopySources == {InX, In2X, InY, <<"in">>, <<"in", Slash>>, <<>>}

InitCopy ==
    /\ IdleGraph
    /\ IdleApp
    /\ IdlePipe
    /\ IdlePath
    /\ \E src \in FileStates({InX, In2X}) :
       \E old \in FileStates({DstX}) :
           files = (InY :> <<"y">>) @@ src @@ old
    /\ dirs = {<<"in">>, <<"in2">>, <<"dst">>}
    /\ call \in [op : {"copy_files_to"},
                 paths : SeqUpTo(CopySources, MaxCopies),
                 destination : {<<"dst">>, <<"gone">>}]
    /\ ret = NotCalled

CallCopyFilesTo ==
    /\ call.op = "copy_files_to"
    /\ ret = NotCalled
    /\ LET r == copy_files_to(call.paths, call.destination,
                              [files |-> files, dirs |-> dirs])
       IN  /\ files' = r.files
           /\ dirs' = r.dirs
           /\ ret' = [status |-> "returned", err |-> r.err]
    /\ UNCHANGED <<call, graphVars, pathVars, pipeVars, appVars>>

NextCopy == CallCopyFilesTo

SpecCopy == InitCopy /\ [][NextCopy]_vars

\* C10: after copy_files_to succeeds, destination/<basename> holds exactly
\* the contents of the last path of the list with that basename.
C10_CopyIsExact ==
    (ret # NotCalled /\ call.op = "copy_files_to" /\ ret.err = "nil") =>
        \A k \in DOMAIN call.paths :
            LET name == AfterLastSlash(call.paths[k])
                to == call.destination \o <<Slash>> \o name
            IN  (\A m \in DOMAIN call.paths :
                     m > k => AfterLastSlash(call.paths[m]) # name)
                => (to \in DOMAIN files /\ files[to] = files[call.paths[k]])

(***************************************************************************)
(* SpecPipe: one call of GenerateWithCommand, for renderer 1.              *)
(***************************************************************************)
GraphDt == <<"w", Slash, "templates", Slash, "graph.dt">>

GraphPng == <<"assets", Slash, "graph.png">>

InitPipe ==
    /\ IdleGraph
    /\ IdleApp
    /\ IdlePath
    /\ IdleCall
    /\ files \in FileStates({GraphDt})
    /\ dirs = {<<"w">>, <<"w", Slash, "templates">>, <<"assets">>}
    /\ \E cmd_found \in BOOLEAN : \E data \in {"nil", "data"} :
          gwc = GwcCall(1, GraphDt, cmd_found, data, GraphPng)
    /\ proc = [r \in Renderers |-> ProcIdle]

NextPipe ==
    \/ Caller
    \/ \E r \in Renderers : Goroutine(r) \/ Copier(r) \/ Command(r)

SpecPipe == InitPipe /\ [][NextPipe]_vars

\* The Go scheduler runs every thread that can run, and the command reads
\* its input or exits.
FairSpecPipe ==
    /\ SpecPipe
    /\ WF_vars(Caller)
    /\ \A r \in Renderers :
          WF_vars(Goroutine(r)) /\ WF_vars(Copier(r)) /\ WF_vars(Command(r))

Launched(r) == proc[r].gor # "none"

\* The producer waits in a Write that r's reader has not taken.
ProducerBlocked(r) ==
    /\ gwc.pc = "writing"
    /\ gwc.inst = r
    /\ proc[r].pending
    /\ ~proc[r].rclosed

\* Nothing on the consuming side can take a step unless the producer does:
\* the copier waits for data or for room, the command waits for input or
\* is gone, and the goroutine waits for them.
ConsumerBlocked(r) ==
    /\ \/ proc[r].copier \in {"none", "done"}
       \/ proc[r].copier = "read" /\ ~proc[r].pending /\ ~proc[r].wclosed
       \/ proc[r].copier = "write" /\ proc[r].sub # "exited"
                                   /\ proc[r].buf >= PipeCap
    /\ \/ proc[r].sub # "running"
       \/ proc[r].buf = 0 /\ ~proc[r].pwclosed
    /\ \/ proc[r].gor \in {"none", "done"}
       \/ proc[r].gor = "wait" /\ ~(proc[r].sub = "exited" /\ proc[r].copier = "done")

C2_Safety ==
    /\ \A r \in Renderers :
          \* w is closed when GenerateWithCommand has returned
          /\ (Launched(r) /\ gwc.pc = "returned") => proc[r].wclosed
          \* and not before template execution completes
          /\ (Launched(r) /\ gwc.pc # "returned") => ~proc[r].wclosed
          \* r is closed only after the command has exited (or never ran)
          /\ proc[r].rclosed => proc[r].sub \in {"exited", "failed"}
          \* producer and consumer are not both blocked
          /\ ~(ProducerBlocked(r) /\ ConsumerBlocked(r))

\* C2: once the command is spawned, w is closed when template execution
\* completes, on success and on failure, so the command, if it keeps
\* reading, sees end-of-input; r is closed only after the command exited;
\* producer and consumer are never both blocked forever: the call returns
\* and the goroutine ends.
C2_PipeProtocol ==
    /\ []C2_Safety
    /\ <>(gwc.pc = "returned")
    /\ \A r \in Renderers :
          /\ [](Launched(r) => <>(proc[r].wclosed))
          /\ [](Launched(r) => <>(proc[r].gor = "done"))
          /\ [](proc[r].sub = "running" =>
                   <>(proc[r].sub = "exited" /\ (proc[r].early \/ proc[r].pwclosed)))

\* The template execution failed by itself after the command had taken a
\* chunk, and the command then saw end-of-input.
C2_Witness ==
    /\ gwc.pc = "returned"
    /\ gwc.err = "Exception executing template"
    /\ proc[1].wclosed
    /\ proc[1].rclosed
    /\ proc[1].sub = "exited"
    /\ ~proc[1].early

(***************************************************************************)
(* GenerateApplication (gen.go:206-347), one action per stage; the two     *)
(* loops (directories, executors) take one action per iteration.  A stage  *)
(* that fails makes the function return its error.                         *)
(***************************************************************************)
Fs == [files |-> files, dirs |-> dirs]

\* gen.go:226-229.
StripSlash(path) ==
    IF Len(path) > 1 /\ Last(path) = Slash
    THEN SubSeq(path, 1, Len(path) - 1) ELSE path

AppName == app_in.a.Name

\* gen.go:231-240.
root_dir == app.path \o <<Slash, AppName>>

src_dir == root_dir \o <<Slash, "src">>

include_dir_1 == root_dir \o <<Slash, "include">>

include_dir_2 == include_dir_1 \o <<Slash, AppName>>

lib_dir == root_dir \o <<Slash, "lib">>

launch_dir == root_dir \o <<Slash, "launch">>

assets_dir == root_dir \o <<Slash, "assets">>

ds == <<root_dir, src_dir, include_dir_1, include_dir_2, lib_dir, launch_dir,
        assets_dir>>

TemplateFile(name) == app.path \o <<Slash, "templates", Slash, name>>

ros_exec_name(i) == "executor_" \o Itoa(i) \o ".cpp"

exec_template_file_name == "executor_" \o Itoa(app_in.meta.Logging_mode) \o ".tmpl"

\* What a template of the set renders.
Rendered == <<"g", "g", "g">>

AppEngines == [parse : BOOLEAN, exec : BOOLEAN, out : {Rendered}]

AppReturn(err) == [app EXCEPT !.stage = "returned", !.err = err]

Acted(stage, n, ok) == Append(trace, [stage |-> stage, n |-> n, ok |-> ok])

\* The history of what the stages created.
Record(newfiles, newdirs) ==
    made' = made \cup (DOMAIN newfiles \ DOMAIN files) \cup (newdirs \ dirs)

\* gen.go:221-229: the application is there; the path loses its slash.
AppCheck ==
    /\ app.stage = "start"
    /\ IF app_in.a.nil
       THEN app' = AppReturn("bad argument: null pointer")
       ELSE app' = [app EXCEPT !.stage = "mkdirs", !.i = 1,
                               !.path = StripSlash(app_in.path)]
    /\ UNCHANGED <<fsVars, pipeVars, graphVars, pathVars, callVars, app_in,
                   trace, made>>

\* gen.go:211-219, 241-244: one os.Mkdir of make_directories.
AppMkdir ==
    /\ app.stage = "mkdirs"
    /\ LET dir == ds[app.i] IN
       IF CanMkdir(Fs, dir)
       THEN /\ dirs' = dirs \cup {dir}
            /\ app' = IF app.i = Len(ds)
                      THEN [app EXCEPT !.stage = "executors", !.i = 0]
                      ELSE [app EXCEPT !.i = @ + 1]
            /\ trace' = Acted("mkdir", app.i, TRUE)
       ELSE /\ dirs' = dirs
            /\ app' = AppReturn("Cannot make dir")
            /\ trace' = Acted("mkdir", app.i, FALSE)
    /\ Record(files, dirs')
    /\ UNCHANGED <<files, pipeVars, graphVars, pathVars, callVars, app_in>>

\* A stage that renders one file with GenerateTemplate.
RenderStage(stage, n, template, output, next) ==
    \E eng \in AppEngines :
       LET r == GenerateTemplate("data", TemplateFile(template), output, Fs, eng)
       IN  /\ files' = r.files
           /\ dirs' = r.dirs
           /\ Record(r.files, r.dirs)
           /\ trace' = Acted(stage, n, r.err = "nil")
           /\ app' = IF r.err = "nil" THEN next ELSE AppReturn(r.err)

\* gen.go:248-267: one iteration of the executor loop.
AppExecutor ==
    /\ app.stage = "executors"
    /\ app.i < app_in.a.Executors
    /\ RenderStage("executor", app.i, exec_template_file_name,
                   src_dir \o <<Slash, ros_exec_name(app.i)>>,
                   [app EXCEPT !.i = @ + 1])
    /\ UNCHANGED <<pipeVars, graphVars, pathVars, callVars, app_in>>

\* gen.go:269-284: the staged paths become filenames; the Build.
AppFilenames ==
    /\ app.stage = "executors"
    /\ app.i >= app_in.a.Executors
    /\ LET sources == filenames_from_paths(app_in.meta.Sources)
           libraries == filenames_from_paths(app_in.meta.Libraries)
       IN  IF sources.err # "nil"
           THEN /\ app' = AppReturn(sources.err)
                /\ trace' = Acted("filenames", 0, FALSE)
           ELSE IF libraries.err # "nil"
           THEN /\ app' = AppReturn(libraries.err)
                /\ trace' = Acted("filenames", 0, FALSE)
           ELSE /\ app' = [app EXCEPT !.stage = "cmake",
                                      !.build = [Name |-> AppName,
                                                 Sources |-> sources.names,
                                                 Libraries |-> libraries.names]]
                /\ trace' = Acted("filenames", 0, TRUE)
    /\ UNCHANGED <<fsVars, pipeVars, graphVars, pathVars, callVars, app_in, made>>

\* gen.go:286-290.
AppCMakeLists ==
    /\ app.stage = "cmake"
    /\ RenderStage("cmake", 0, "CMakeLists.tmpl",
                   root_dir \o <<Slash, "CMakeLists.txt">>,
                   [app EXCEPT !.stage = "package"])
    /\ UNCHANGED <<pipeVars, graphVars, pathVars, callVars, app_in>>

\* gen.go:292-296.
AppPackage ==
    /\ app.stage = "package"
    /\ RenderStage("package", 0, "package.tmpl",
                   root_dir \o <<Slash, "package.xml">>,
                   [app EXCEPT !.stage = "copy_libraries"])
    /\ UNCHANGED <<pipeVars, graphVars, pathVars, callVars, app_in>>

\* A stage that stages files with copy_files_to.
CopyStage(stage, paths, destination, next) ==
    LET r == copy_files_to(paths, destination, Fs)
    IN  /\ files' = r.files
        /\ dirs' = r.dirs
        /\ Record(r.files, r.dirs)
        /\ trace' = Acted(stage, 0, r.err = "nil")
        /\ app' = IF r.err = "nil" THEN [app EXCEPT !.stage = next]
                  ELSE AppReturn(r.err)

\* gen.go:298-302.
AppCopyLibraries ==
    /\ app.stage = "copy_libraries"
    /\ CopyStage("copy_libraries", app_in.meta.Libraries, lib_dir, "copy_headers")
    /\ UNCHANGED <<pipeVars, graphVars, pathVars, callVars, app_in>>

\* gen.go:303-306.
AppCopyHeaders ==
    /\ app.stage = "copy_headers"
    /\ CopyStage("copy_headers", app_in.meta.Headers, include_dir_2, "copy_sources")
    /\ UNCHANGED <<pipeVars, graphVars, pathVars, callVars, app_in>>

\* gen.go:307-310.
AppCopySources ==
    /\ app.stage = "copy_sources"
    /\ CopyStage("copy_sources", app_in.meta.Sources, src_dir, "launch")
    /\ UNCHANGED <<pipeVars, graphVars, pathVars, callVars, app_in>>

\* gen.go:312-317.
AppLaunch ==
    /\ app.stage = "launch"
    /\ RenderStage("launch", 0, "launch.tmpl",
                   launch_dir \o <<Slash, app.build.Name \o "_launch.py">>,
                   [app EXCEPT !.stage = "graph"])
    /\ UNCHANGED <<pipeVars, graphVars, pathVars, callVars, app_in>>

\* gen.go:319-326: graph_to_graphviz, then the call of GenerateWithCommand
\* for renderer 1.  A panic of graph_to_graphviz ends the function without
\* a return.
AppGraph ==
    /\ app.stage = "graph"
    /\ \E other \in OtherRows(graph_data) :
          LET r == graph_to_graphviz(graph_data, other) IN
          /\ gv' = r
          /\ IF r.status = "panic"
             THEN /\ app' = [app EXCEPT !.stage = "panicked"]
                  /\ trace' = Acted("graph", 0, FALSE)
                  /\ gwc' = gwc
             ELSE /\ app' = [app EXCEPT !.stage = "graph_wait"]
                  /\ trace' = trace
                  /\ gwc' = GwcCall(1, TemplateFile("graph.dt"),
                                    app_in.cmd_found, "data",
                                    assets_dir \o <<Slash, "graph.png">>)
    /\ UNCHANGED <<fsVars, proc, graph_data, ga, pathVars, callVars, app_in, made>>

\* gen.go:327-330: GenerateWithCommand returned.
AppGraphReturn ==
    /\ app.stage = "graph_wait"
    /\ gwc.pc = "returned"
    /\ trace' = Acted("graph", 0, gwc.err = "nil")
    /\ app' = IF gwc.err = "nil" THEN [app EXCEPT !.stage = "application"]
              ELSE AppReturn(gwc.err)
    /\ gwc' = GwcIdle
    /\ UNCHANGED <<fsVars, proc, graphVars, pathVars, callVars, app_in, made>>

\* gen.go:332-340: application_to_graphviz, then the call of
\* GenerateWithCommand for renderer 2.
AppApplication ==
    /\ app.stage = "application"
    /\ ga' = application_to_graphviz(graph_data.Graph)
    /\ app' = [app EXCEPT !.stage = "application_wait"]
    /\ gwc' = GwcCall(2, TemplateFile("application.dt"), app_in.cmd_found,
                      "data", assets_dir \o <<Slash, "application.png">>)
    /\ UNCHANGED <<fsVars, proc, graph_data, gv, pathVars, callVars, app_in,
                   trace, made>>

\* gen.go:341-346: GenerateWithCommand returned; so does GenerateApplication.
AppApplicationReturn ==
    /\ app.stage = "application_wait"
    /\ gwc.pc = "returned"
    /\ trace' = Acted("application", 0, gwc.err = "nil")
    /\ app' = AppReturn(gwc.err)
    /\ gwc' = GwcIdle
    /\ UNCHANGED <<fsVars, proc, graphVars, pathVars, callVars, app_in, made>>

(***************************************************************************)
(* SpecApp: one call of GenerateApplication.  The working tree w holds the *)
(* template set; in and in2 hold the files to stage.                       *)
(***************************************************************************)
TemplateNames ==
    {"executor_0.tmpl", "CMakeLists.tmpl", "package.tmpl", "launch.tmpl",
     "graph.dt", "application.dt"}

InExecutor0 == <<"in", Slash, "executor_0.cpp">>

\* The files on disk before the call.
StagedFiles ==
    (InX :> <<"x", "x">>) @@ (In2X :> <<"y">>) @@ (InY :> <<"y">>)
        @@ (InExecutor0 :> <<"s">>)

TemplateSet ==
    [p \in {<<"w", Slash, "templates", Slash, n>> : n \in TemplateNames}
        |-> <<"t">>]

\* Chain 0 -> 1.
ChainGraphdata ==
    [Chains |-> <<2>>, Node_wcet_map |-> WcetMap({0, 1}),
     Node_prio_map |-> PrioMap({0, 1}),
     Graph |-> PlaceAll(EmptyGraph(2), <<<<0, 1>>>>, 1)]

\* One node, in no chain, with no edge.
LoneSyncGraphdata ==
    [Chains |-> <<>>, Node_wcet_map |-> <<>>, Node_prio_map |-> <<>>,
     Graph |-> EmptyGraph(1)]

\* The nil *app.Application.
NilApplication == [nil |-> TRUE, Name |-> "", Executors |-> 0]

Applications ==
    {NilApplication} \cup
    {[nil |-> FALSE, Name |-> "demo", Executors |-> k] : k \in 0 .. MaxExecutors}

Metadatas ==
    [Sources : {<<>>, <<InX, In2X>>, <<InExecutor0>>, <<<<>>>>},
     Libraries : {<<>>, <<InY>>, <<<<>>>>},
     Headers : {<<>>, <<InY>>},
     Logging_mode : {0, 3}]

InitApp ==
    /\ IdlePath
    /\ IdleCall
    /\ IdlePipe
    /\ graph_data \in {ChainGraphdata, LoneSyncGraphdata}
    /\ gv = NoResult
    /\ ga = NoResult
    /\ files = TemplateSet @@ StagedFiles
    /\ dirs \in {{<<"w">>, <<"w", Slash, "templates">>, <<"in">>, <<"in2">>},
                 {<<"w">>, <<"w", Slash, "templates">>, <<"in">>, <<"in2">>,
                  <<"w", Slash, "demo">>}}
    /\ app_in \in [a : Applications, path : {<<"w">>, <<"w", Slash>>},
                   meta : Metadatas, cmd_found : BOOLEAN]
    /\ app = [stage |-> "start", i |-> 0, err |-> "nil", path |-> <<>>,
              build |-> [Name |-> ""]]
    /\ trace = <<>>
    /\ made = {}

NextApp ==
    \/ AppCheck
    \/ AppMkdir
    \/ AppExecutor
    \/ AppFilenames
    \/ AppCMakeLists
    \/ AppPackage
    \/ AppCopyLibraries
    \/ AppCopyHeaders
    \/ AppCopySources
    \/ AppLaunch
    \/ AppGraph
    \/ AppGraphReturn
    \/ AppApplication
    \/ AppApplicationReturn
    \/ Caller
    \/ \E r \in Renderers : Goroutine(r) \/ Copier(r) \/ Command(r)

SpecApp == InitApp /\ [][NextApp]_vars

\* The artifacts of a run, by path.
Artifacts ==
    {src_dir \o <<Slash, ros_exec_name(i)>> : i \in 0 .. app_in.a.Executors - 1}
    \cup {root_dir \o <<Slash, "CMakeLists.txt">>,
          root_dir \o <<Slash, "package.xml">>,
          launch_dir \o <<Slash, AppName \o "_launch.py">>,
          assets_dir \o <<Slash, "graph.png">>,
          assets_dir \o <<Slash, "application.png">>}

\* The renderer command started and did not exit before end-of-input.
RendererWorks(r) == proc[r].sub # "failed" /\ ~proc[r].early

\* C1: when GenerateApplication returns without error, with renderers that
\* work, every artifact exists at the moment of the return: the executor
\* sources, CMakeLists.txt, package.xml, the launch script, and the two
\* images the renderer subprocesses write.
C1_ArtifactsAtReturn ==
    (/\ app.stage = "returned"
     /\ app.err = "nil"
     /\ \A r \in Renderers : RendererWorks(r))
    => Artifacts \subseteq DOMAIN files

\* The stages in their fixed order, for an application of e executors.
StageOrder(e) ==
    [k \in 1 .. 7 |-> <<"mkdir", k>>]
    \o [k \in 1 .. e |-> <<"executor", k - 1>>]
    \o <<<<"filenames", 0>>, <<"cmake", 0>>, <<"package", 0>>,
         <<"copy_libraries", 0>>, <<"copy_headers", 0>>,
         <<"copy_sources", 0>>, <<"launch", 0>>, <<"graph", 0>>,
         <<"application", 0>>>>

\* The stages that acted are the first ones of the fixed order.
InStageOrder ==
    LET order == StageOrder(app_in.a.Executors) IN
    /\ Len(trace) <= Len(order)
    /\ \A k \in 1 .. Len(trace) :
          trace[k].stage = order[k][1] /\ trace[k].n = order[k][2]

\* Only the last stage that acted can have failed.
NothingAfterFailure == \A k \in 1 .. Len(trace) - 1 : trace[k].ok

\* What the stages created is still there.
NoCleanup == made \subseteq (dirs \cup DOMAIN files)

\* C3: GenerateApplication runs its stages in one fixed order; when a stage
\* fails no later stage acts, an error is returned, and what the earlier
\* stages created is left in place.
C3_StagedAbort ==
    /\ InStageOrder
    /\ NothingAfterFailure
    /\ NoCleanup
    /\ (trace # <<>> /\ ~trace[Len(trace)].ok)
          => (app.stage = "returned" /\ app.err # "nil")

====
